---- MODULE Spec2Model ----
(***************************************************************************)
(* Neighbour sampling of gammagl/loader/Neighbour_sampler.py: the pure     *)
(* python sampler Neighbor_Sampler_python (sample, sample_subset, small_g) *)
(* over a CSR adjacency (rowptr, edge_index).                              *)
(*                                                                         *)
(* Arrays indexed by the code with 0-based positions (rowptr, edge_index)  *)
(* are functions over 0..n-1; python lists whose order alone matters       *)
(* (dst_nodes, e_id, adjs) are sequences.  A python dict is the sequence   *)
(* of its <<key, value>> items in insertion order.                         *)
(***************************************************************************)
EXTENDS Integers, Sequences, FiniteSets, TLC

\* ------------------------------------------------------------------ bounds
\* longest seed batch handed to sample
MaxBatch == 2
\* longest sample_list (number of hops)
MaxHops == 2
\* largest positive fanout in a sample_list
MaxFanout == 2
\* the same for the specifications other than Spec
MaxBatchDraw == 1
MaxHopsDraw == 1

\* ----------------------------------------------------------------- helpers
ZeroBased(s) == [i \in 0..(Len(s) - 1) |-> s[i + 1]]

Range(s) == {s[i] : i \in 1..Len(s)}

IsDistinct(s) == \A i, j \in 1..Len(s) : i # j => s[i] # s[j]

Count(s, x) == Cardinality({i \in 1..Len(s) : s[i] = x})

SeqsUpTo(S, n) == UNION {[1..k -> S] : k \in 0..n}

\* ------------------------------------------------------------- python dict
DictKeys_reversed(d) == [i \in 1..Len(d) |-> d[Len(d) + 1 - i][1]]

DictKeys(d) == [i \in 1..Len(d) |-> d[i][1]]

DictHas(d, k) == \E i \in 1..Len(d) : d[i][1] = k

DictGet(d, k) == d[CHOOSE i \in 1..Len(d) : d[i][1] = k][2]

\* d[k] = v : an existing key keeps its place and takes the new value
DictSet(d, k, v) ==
    IF DictHas(d, k)
    THEN [i \in 1..Len(d) |-> IF d[i][1] = k THEN <<k, v>> ELSE d[i]]
    ELSE Append(d, <<k, v>>)

\* ------------------------------------------------------------ numpy arrays
\* tlx.transpose of a [2, N] array: the N rows <<src, dst>>, 0-based
TransposeInput(ei) == [i \in 0..(Len(ei[1]) - 1) |-> <<ei[1][i + 1], ei[2][i + 1]>>]

\* ndarray.T of the [E, 2] array np.array(new_edge); np.array([]) is 1-d
TransposeEdges(new_edge) ==
    IF new_edge = <<>> THEN <<>>
    ELSE << [i \in 1..Len(new_edge) |-> new_edge[i][1]],
            [i \in 1..Len(new_edge) |-> new_edge[i][2]] >>

Reverse_forgotten(s) == s

\* adjs[::-1]
Reverse(s) == [i \in 1..Len(s) |-> s[Len(s) + 1 - i]]

\* range(st, st + len1)
PyRange(st, len1) == [i \in 1..len1 |-> st + i - 1]

ChoiceNoReplace_repeats(len1, sample) == [1..sample -> 0..(len1 - 1)]

\* the outcomes of np.random.choice(np.arange(0, len1), sample, replace=False)
ChoiceNoReplace(len1, sample) ==
    {s \in [1..sample -> 0..(len1 - 1)] : IsDistinct(s)}

ChoiceReplace_capped(len1, sample) ==
    [1..(IF sample < len1 THEN sample ELSE len1) -> 0..(len1 - 1)]

ChoiceReplace_skipEmpty(len1, sample) ==
    IF len1 = 0 THEN {<<>>} ELSE [1..sample -> 0..(len1 - 1)]

\* the outcomes of np.random.choice(np.arange(0, len1), sample, replace=True);
\* the empty set stands for the ValueError numpy raises on an empty population
ChoiceReplace(len1, sample) == [1..sample -> 0..(len1 - 1)]

\* ------------------------------------------------------------------ inputs
\* adjacencies handed to the constructor: indptr and the [2, N] edge_index
\* (row 1 the sources, row 2 the destinations)
Graphs ==
    { \* ranges hold in-edges: degrees 2, 0 and 0
      [indptr |-> <<0, 2, 2, 2>>,
       edge_index |-> << <<1, 2>>, <<0, 0>> >>],
      \* ranges hold in-edges: degree 2 (with a self loop) and degree 1
      [indptr |-> <<0, 2, 3>>,
       edge_index |-> << <<1, 0, 0>>, <<0, 0, 1>> >>],
      \* a directed 3-cycle whose ranges hold out-edges
      [indptr |-> <<0, 1, 2, 3>>,
       edge_index |-> << <<0, 1, 2>>, <<1, 2, 0>> >>] }

\* adjacencies with a node of degree 3, for the draws of more than one position
GraphsDraw ==
    { \* ranges hold in-edges: degrees 3 (with a self loop), 0 and 1
      [indptr |-> <<0, 3, 3, 4>>,
       edge_index |-> << <<1, 2, 0, 0>>, <<0, 0, 0, 2>> >>],
      \* a directed 3-cycle whose ranges hold out-edges
      [indptr |-> <<0, 1, 2, 3>>,
       edge_index |-> << <<0, 1, 2>>, <<1, 2, 0>> >>] }

\* a 4-node adjacency with ranges of 2, 1, 2 and 0 edges, once with the range
\* of node v holding the edges into v and once holding the edges out of v
GraphsScenario ==
    { [indptr |-> <<0, 2, 3, 5, 5>>,
       edge_index |-> << <<1, 2, 2, 0, 1>>, <<0, 0, 1, 2, 2>> >>],
      [indptr |-> <<0, 2, 3, 5, 5>>,
       edge_index |-> << <<0, 0, 1, 2, 2>>, <<1, 2, 2, 0, 1>> >>] }

\* arguments the constructor takes as they come: an indptr that is not
\* non-decreasing (the range of node 1 runs from 2 to 1, those of nodes 0 and 2
\* overlap), and one of a well-formed length over a 3-cycle of in-edges
GraphsUnchecked ==
    { [indptr |-> <<0, 2, 1, 3>>,
       edge_index |-> << <<1, 2, 0>>, <<0, 0, 2>> >>],
      [indptr |-> <<0, 1, 2, 3>>,
       edge_index |-> << <<2, 0, 1>>, <<0, 1, 2>> >>] }

NumNodes(g) == Len(g.indptr) - 1

Fanouts == {-1} \cup 1..MaxFanout

\* the two sample calls the model follows; Spec runs the first alone
Calls == {"c1", "c2"}

\* ------------------------------------------------------------------- state
VARIABLES
    rowptr,       \* self.rowptr
    edge_index,   \* self.edge_index, [N, 2]
    sample_list,  \* self.sample_list
    replace,      \* self.replace
    all_node,     \* self.all_node, the dict of sample_subset
    rng_calls,    \* number of np.random.choice calls made so far
    batch,        \* per call: the argument of sample
    pc,           \* per call: position in sample / sample_subset
    dst_node,     \* per call: dst_node of sample, dst_nodes of sample_subset
    adjs,         \* per call: adjs of sample
    hop,          \* per call: 1-based position of `sample` in sample_list
    idx,          \* per call: 1-based position of the running for loop
    a,            \* per call: a of sample_subset
    e_id,         \* per call: e_id of sample_subset
    err,          \* per call: the exception that ended the call, or "none"
    result        \* per call: the returned list, <<>> while nothing is returned

vars == << rowptr, edge_index, sample_list, replace, all_node, rng_calls, batch,
           pc, dst_node, adjs, hop, idx, a, e_id, err, result >>

sampler == << rowptr, edge_index, sample_list, replace >>

\* Neighbor_Sampler_python.__init__(g.edge_index, g.indptr, ..., sl, rp)
\* followed by one pending call sample(b)
\* the sampler after __init__, and the batches of the two calls to come
ConstructedTwo(g, sl, rp, b, b2) ==
    /\ rowptr = ZeroBased(g.indptr)
    /\ edge_index = TransposeInput(g.edge_index)
    /\ sample_list = sl
    /\ replace = rp
    /\ all_node = <<>>
    /\ rng_calls = 0
    /\ batch = [c \in Calls |-> IF c = "c1" THEN b ELSE b2]
    /\ pc = [c \in Calls |-> "idle"]
    /\ dst_node = [c \in Calls |-> <<>>]
    /\ adjs = [c \in Calls |-> <<>>]
    /\ hop = [c \in Calls |-> 1]
    /\ idx = [c \in Calls |-> 1]
    /\ a = [c \in Calls |-> 0]
    /\ e_id = [c \in Calls |-> <<>>]
    /\ err = [c \in Calls |-> "none"]
    /\ result = [c \in Calls |-> <<>>]

Constructed(g, sl, rp, b) == ConstructedTwo(g, sl, rp, b, <<>>)

Init ==
    \E g \in Graphs, sl \in SeqsUpTo(Fanouts, MaxHops), rp \in BOOLEAN :
      \E b \in SeqsUpTo(0..(NumNodes(g) - 1), MaxBatch) :
        Constructed(g, sl, rp, b)

InitDraw ==
    \E g \in GraphsDraw, sl \in SeqsUpTo(Fanouts, MaxHopsDraw), rp \in BOOLEAN :
      \E b \in SeqsUpTo(0..(NumNodes(g) - 1), MaxBatchDraw) :
        Constructed(g, sl, rp, b)

InitScenario ==
    \E g \in GraphsScenario, sl \in SeqsUpTo(Fanouts, MaxHopsDraw), rp \in BOOLEAN :
      \E b \in SeqsUpTo(0..(NumNodes(g) - 1), MaxBatchDraw) :
        Constructed(g, sl, rp, b)

InitUnchecked ==
    \E g \in GraphsUnchecked, sl \in SeqsUpTo(Fanouts, MaxHopsDraw), rp \in BOOLEAN :
      \E b \in SeqsUpTo(0..(NumNodes(g) - 1), MaxBatchDraw) :
        Constructed(g, sl, rp, b)

\* two calls with different batches on one sampler
InitTwo ==
    \E g \in Graphs, sl \in SeqsUpTo(Fanouts, MaxHopsDraw), rp \in BOOLEAN :
      \E b, b2 \in SeqsUpTo(0..(NumNodes(g) - 1), MaxBatchDraw) :
        b # b2 /\ ConstructedTwo(g, sl, rp, b, b2)

\* ------------------------------------------------------- sample_subset body
AddSources_noCheck(d, ps) ==
    LET RECURSIVE go(_, _)
        go(dd, k) ==
            IF k > Len(ps) THEN dd
            ELSE go(DictSet(dd, edge_index[ps[k]][1], Len(dd)), k + 1)
    IN  go(d, 1)

\* the loop body shared by the three sampling branches: for each selected
\* position, give an unseen source the next local index
AddSources(d, ps) ==
    LET RECURSIVE go(_, _)
        go(dd, k) ==
            IF k > Len(ps) THEN dd
            ELSE LET src == edge_index[ps[k]][1]
                 IN  go(IF DictHas(dd, src) THEN dd
                        ELSE DictSet(dd, src, Len(dd)), k + 1)
    IN  go(d, 1)

Degree(v) == rowptr[v + 1] - rowptr[v]

SelectAllPositions_short(v) == PyRange(rowptr[v], Degree(v) - 1)

\* the edge positions the fanout -1 branch walks for dst_node v
SelectAllPositions(v) == PyRange(rowptr[v], Degree(v))

CapApplies_strict(sample, len1) == sample > len1

\* without replacement: `if sample >= len1` takes the whole range
CapApplies(sample, len1) == sample >= len1

\* the edge positions of the whole range, taken when the cap applies
CappedPositions(v) == PyRange(rowptr[v], Degree(v))

DrawnPositions_noOffset(v, ind) == [i \in 1..Len(ind) |-> ind[i]]

\* the edge positions st + i for the drawn offsets ind
DrawnPositions(v, ind) == [i \in 1..Len(ind) |-> rowptr[v] + ind[i]]

SmallGResolves_needsEdges(d, eid) ==
    /\ eid # <<>>
    /\ \A k \in 1..Len(eid) :
           DictHas(d, edge_index[eid[k]][1]) /\ DictHas(d, edge_index[eid[k]][2])

\* small_g finds both endpoints of every e_id edge in the dict
SmallGResolves(d, eid) ==
    \A k \in 1..Len(eid) :
        DictHas(d, edge_index[eid[k]][1]) /\ DictHas(d, edge_index[eid[k]][2])

small_g_swapped(d, eid) ==
    [k \in 1..Len(eid) |->
        << DictGet(d, edge_index[eid[k]][2]), DictGet(d, edge_index[eid[k]][1]) >>]

\* small_g: [all_node[a], all_node[b]] for each edge (a, b) of edge_index[e_id]
small_g(d, eid) ==
    [k \in 1..Len(eid) |->
        << DictGet(d, edge_index[eid[k]][1]), DictGet(d, edge_index[eid[k]][2]) >>]

subg_swapped(new_edges, b, aa) == [edge |-> TransposeEdges(new_edges), size |-> <<aa, b>>]

\* subg(edge.T, size) with size = (b, a)
subg(new_edges, b, aa) == [edge |-> TransposeEdges(new_edges), size |-> <<b, aa>>]

\* ----------------------------------------------------------------- actions
Begin_noSeeds(c) ==
    /\ pc[c] = "idle"
    /\ adjs' = [adjs EXCEPT ![c] = <<>>]
    /\ dst_node' = [dst_node EXCEPT ![c] = <<>>]
    /\ hop' = [hop EXCEPT ![c] = 1]
    /\ pc' = [pc EXCEPT ![c] = "loop"]
    /\ UNCHANGED << sampler, all_node, rng_calls, batch, idx, a, e_id, err, result >>

\* sample: adjs = [], dst_node = batch
Begin(c) ==
    /\ pc[c] = "idle"
    /\ adjs' = [adjs EXCEPT ![c] = <<>>]
    /\ dst_node' = [dst_node EXCEPT ![c] = batch[c]]
    /\ hop' = [hop EXCEPT ![c] = 1]
    /\ pc' = [pc EXCEPT ![c] = "loop"]
    /\ UNCHANGED << sampler, all_node, rng_calls, batch, idx, a, e_id, err, result >>

EnterHop_noReset(c) ==
    /\ pc[c] = "loop"
    /\ hop[c] <= Len(sample_list)
    /\ e_id' = [e_id EXCEPT ![c] = <<>>]
    /\ idx' = [idx EXCEPT ![c] = 1]
    /\ pc' = [pc EXCEPT ![c] = "insert"]
    /\ UNCHANGED << sampler, all_node, rng_calls, batch, dst_node, adjs, hop, a, err,
                    result >>

\* the next `sample` of sample_list: sample_subset starts with a fresh dict
EnterHop(c) ==
    /\ pc[c] = "loop"
    /\ hop[c] <= Len(sample_list)
    /\ all_node' = <<>>
    /\ e_id' = [e_id EXCEPT ![c] = <<>>]
    /\ idx' = [idx EXCEPT ![c] = 1]
    /\ pc' = [pc EXCEPT ![c] = "insert"]
    /\ UNCHANGED << sampler, rng_calls, batch, dst_node, adjs, hop, a, err, result >>

\* for i, dst_node in enumerate(dst_nodes): self.all_node[dst_node] = i
InsertDst(c) ==
    /\ pc[c] = "insert"
    /\ idx[c] <= Len(dst_node[c])
    /\ all_node' = DictSet(all_node, dst_node[c][idx[c]], idx[c] - 1)
    /\ idx' = [idx EXCEPT ![c] = idx[c] + 1]
    /\ UNCHANGED << sampler, rng_calls, batch, pc, dst_node, adjs, hop, a, e_id,
                    err, result >>

\* a = len(self.all_node)
EndInsert(c) ==
    /\ pc[c] = "insert"
    /\ idx[c] > Len(dst_node[c])
    /\ a' = [a EXCEPT ![c] = Len(all_node)]
    /\ idx' = [idx EXCEPT ![c] = 1]
    /\ pc' = [pc EXCEPT ![c] = "select"]
    /\ UNCHANGED << sampler, all_node, rng_calls, batch, dst_node, adjs, hop, e_id,
                    err, result >>

Selected_inPlace(c, ps) ==
    /\ all_node' = AddSources(all_node, ps)
    /\ e_id' = [e_id EXCEPT ![c] = e_id[c] \o ps]
    /\ idx' = [idx EXCEPT ![c] = idx[c] + 1]
    /\ edge_index' = [p \in DOMAIN edge_index |->
                         IF p \in Range(ps) THEN << edge_index[p][2], edge_index[p][1] >>
                         ELSE edge_index[p]]
    /\ UNCHANGED << rowptr, sample_list, replace, batch, pc, dst_node, adjs, hop, a,
                    err, result >>

\* one destination node done: its positions ps joined e_id, their sources the dict
Selected(c, ps) ==
    /\ all_node' = AddSources(all_node, ps)
    /\ e_id' = [e_id EXCEPT ![c] = e_id[c] \o ps]
    /\ idx' = [idx EXCEPT ![c] = idx[c] + 1]
    /\ UNCHANGED << sampler, batch, pc, dst_node, adjs, hop, a, err, result >>

\* sample == -1: every neighbour of the destination node
SelectAll(c) ==
    /\ pc[c] = "select"
    /\ idx[c] <= Len(dst_node[c])
    /\ sample_list[hop[c]] = -1
    /\ Selected(c, SelectAllPositions(dst_node[c][idx[c]]))
    /\ UNCHANGED rng_calls

\* self.replace == False, sample >= len1: every neighbour, no draw
SelectCapped(c) ==
    /\ pc[c] = "select"
    /\ idx[c] <= Len(dst_node[c])
    /\ sample_list[hop[c]] # -1
    /\ replace = FALSE
    /\ CapApplies(sample_list[hop[c]], Degree(dst_node[c][idx[c]]))
    /\ Selected(c, CappedPositions(dst_node[c][idx[c]]))
    /\ UNCHANGED rng_calls

\* self.replace == False, sample < len1: np.random.choice without replacement
SelectNoReplace(c) ==
    /\ pc[c] = "select"
    /\ idx[c] <= Len(dst_node[c])
    /\ sample_list[hop[c]] # -1
    /\ replace = FALSE
    /\ ~CapApplies(sample_list[hop[c]], Degree(dst_node[c][idx[c]]))
    /\ \E ind \in ChoiceNoReplace(Degree(dst_node[c][idx[c]]), sample_list[hop[c]]) :
           Selected(c, DrawnPositions(dst_node[c][idx[c]], ind))
    /\ rng_calls' = rng_calls + 1

SelectReplace_anyFanout(c) ==
    /\ pc[c] = "select"
    /\ idx[c] <= Len(dst_node[c])
    /\ replace = TRUE
    /\ \E ind \in ChoiceReplace(Degree(dst_node[c][idx[c]]), sample_list[hop[c]]) :
           Selected(c, DrawnPositions(dst_node[c][idx[c]], ind))
    /\ rng_calls' = rng_calls + 1

\* self.replace == True: np.random.choice with replacement
SelectReplace(c) ==
    /\ pc[c] = "select"
    /\ idx[c] <= Len(dst_node[c])
    /\ sample_list[hop[c]] # -1
    /\ replace = TRUE
    /\ \E ind \in ChoiceReplace(Degree(dst_node[c][idx[c]]), sample_list[hop[c]]) :
           Selected(c, DrawnPositions(dst_node[c][idx[c]], ind))
    /\ rng_calls' = rng_calls + 1

\* self.replace == True on an empty range: np.random.choice raises ValueError
SelectReplaceEmpty(c) ==
    /\ pc[c] = "select"
    /\ idx[c] <= Len(dst_node[c])
    /\ sample_list[hop[c]] # -1
    /\ replace = TRUE
    /\ ChoiceReplace(Degree(dst_node[c][idx[c]]), sample_list[hop[c]]) = {}
    /\ rng_calls' = rng_calls + 1
    /\ pc' = [pc EXCEPT ![c] = "error"]
    /\ err' = [err EXCEPT ![c] = "ValueError"]
    /\ UNCHANGED << sampler, all_node, batch, dst_node, adjs, hop, idx, a, e_id, result >>

Assemble_assignFresh(c) ==
    LET RECURSIVE go(_, _)
        go(dd, k) ==
            IF k > Len(e_id[c]) THEN dd
            ELSE LET dst == edge_index[e_id[c][k]][2]
                 IN  go(IF DictHas(dd, dst) THEN dd ELSE DictSet(dd, dst, Len(dd)), k + 1)
        filled == go(all_node, 1)
    IN  /\ pc[c] = "select"
        /\ idx[c] > Len(dst_node[c])
        /\ all_node' = filled
        /\ adjs' = [adjs EXCEPT ![c] =
                       Append(adjs[c], subg(small_g(filled, e_id[c]), Len(filled), a[c]))]
        /\ dst_node' = [dst_node EXCEPT ![c] = DictKeys(filled)]
        /\ hop' = [hop EXCEPT ![c] = hop[c] + 1]
        /\ pc' = [pc EXCEPT ![c] = "loop"]
        /\ UNCHANGED << sampler, rng_calls, batch, idx, a, e_id, err, result >>

Assemble_frontierOnly(c) ==
    /\ pc[c] = "select"
    /\ idx[c] > Len(dst_node[c])
    /\ SmallGResolves(all_node, e_id[c])
    /\ adjs' = [adjs EXCEPT ![c] =
                   Append(adjs[c], subg(small_g(all_node, e_id[c]), Len(all_node), a[c]))]
    /\ dst_node' = [dst_node EXCEPT ![c] =
                       SubSeq(DictKeys(all_node), a[c] + 1, Len(all_node))]
    /\ hop' = [hop EXCEPT ![c] = hop[c] + 1]
    /\ pc' = [pc EXCEPT ![c] = "loop"]
    /\ UNCHANGED << sampler, all_node, rng_calls, batch, idx, a, e_id, err, result >>

\* new_edges = self.small_g(e_id); b = len(self.all_node); back in sample:
\* adjs.append(subg(edge.T, size)); dst_node = list(self.all_node.keys())
Assemble(c) ==
    /\ pc[c] = "select"
    /\ idx[c] > Len(dst_node[c])
    /\ SmallGResolves(all_node, e_id[c])
    /\ adjs' = [adjs EXCEPT ![c] =
                   Append(adjs[c], subg(small_g(all_node, e_id[c]), Len(all_node), a[c]))]
    /\ dst_node' = [dst_node EXCEPT ![c] = DictKeys(all_node)]
    /\ hop' = [hop EXCEPT ![c] = hop[c] + 1]
    /\ pc' = [pc EXCEPT ![c] = "loop"]
    /\ UNCHANGED << sampler, all_node, rng_calls, batch, idx, a, e_id, err, result >>

\* small_g looks up an endpoint the dict does not hold: KeyError
AssembleKeyError(c) ==
    /\ pc[c] = "select"
    /\ idx[c] > Len(dst_node[c])
    /\ ~SmallGResolves(all_node, e_id[c])
    /\ pc' = [pc EXCEPT ![c] = "error"]
    /\ err' = [err EXCEPT ![c] = "KeyError"]
    /\ UNCHANGED << sampler, all_node, rng_calls, batch, dst_node, adjs, hop, idx, a,
                    e_id, result >>

Return_early(c) ==
    /\ pc[c] = "loop"
    /\ hop[c] > 1
    /\ result' = [result EXCEPT ![c] = << batch[c], Reverse(adjs[c]), dst_node[c] >>]
    /\ pc' = [pc EXCEPT ![c] = "done"]
    /\ UNCHANGED << sampler, all_node, rng_calls, batch, dst_node, adjs, hop, idx, a,
                    e_id, err >>

\* all_node = dst_node; return [np.array(batch), adjs[::-1], all_node]
Return(c) ==
    /\ pc[c] = "loop"
    /\ hop[c] > Len(sample_list)
    /\ result' = [result EXCEPT ![c] = << batch[c], Reverse(adjs[c]), dst_node[c] >>]
    /\ pc' = [pc EXCEPT ![c] = "done"]
    /\ UNCHANGED << sampler, all_node, rng_calls, batch, dst_node, adjs, hop, idx, a,
                    e_id, err >>

Step(c) ==
    \/ Begin(c)
    \/ EnterHop(c)
    \/ InsertDst(c)
    \/ EndInsert(c)
    \/ SelectAll(c)
    \/ SelectCapped(c)
    \/ SelectNoReplace(c)
    \/ SelectReplace(c)
    \/ SelectReplaceEmpty(c)
    \/ Assemble(c)
    \/ AssembleKeyError(c)
    \/ Return(c)

\* one call of sample, run alone
Next == Step("c1")

Spec == Init /\ [][Next]_vars

\* the same call over the adjacencies of GraphsDraw
SpecDraw == InitDraw /\ [][Next]_vars

\* the same call over the adjacencies of GraphsUnchecked
SpecUnchecked == InitUnchecked /\ [][Next]_vars

\* the same call over the adjacencies of GraphsScenario
SpecScenario == InitScenario /\ [][Next]_vars

\* two calls of sample on the same object from two threads: the statements of
\* the two interleave, self.all_node being one attribute of the one object
NextConc == \E c \in Calls : Step(c)

SpecConc == InitTwo /\ [][NextConc]_vars

\* two calls of sample on the same object, the second made once the first has
\* returned or raised
NextSeq ==
    \/ Step("c1")
    \/ pc["c1"] \in {"done", "error"} /\ Step("c2")

SpecSeq == InitTwo /\ [][NextSeq]_vars

\* ------------------------------------------------------------------ claims
\* the destination node a call's sampling loop stands at, and its fanout
Cur(c) == dst_node[c][idx[c]]
Fanout(c) == sample_list[hop[c]]
AtNode(c) == pc[c] = "select" /\ idx[c] <= Len(dst_node[c])
HopSampled(c) == pc[c] = "select" /\ idx[c] > Len(dst_node[c])
InRangeOf(p, v) == rowptr[v] <= p /\ p < rowptr[v + 1]
\* the positions one step appends to e_id
Chunk(c) == SubSeq(e_id'[c], Len(e_id[c]) + 1, Len(e_id'[c]))

\* C1: with fanout -1 and distinct destination nodes, the selected edge-id
\* list holds every position of every processed destination node's CSR range
\* exactly once and no other position.
C1_FullExpansion ==
    \A c \in Calls :
        (pc[c] = "select" /\ Fanout(c) = -1 /\ IsDistinct(dst_node[c])) =>
            /\ Range(e_id[c]) \subseteq DOMAIN edge_index
            /\ \A p \in DOMAIN edge_index :
                   Count(e_id[c], p) =
                       IF \E k \in 1..(idx[c] - 1) : InRangeOf(p, dst_node[c][k])
                       THEN 1 ELSE 0

C1_Witness ==
    /\ HopSampled("c1")
    /\ Fanout("c1") = -1
    /\ hop["c1"] = 2
    /\ IsDistinct(dst_node["c1"])
    /\ Len(dst_node["c1"]) >= 2
    /\ Len(e_id["c1"]) >= 3

C3_NoReplaceDraw ==
    [][\A c \in Calls :
         (AtNode(c) /\ replace = FALSE /\ 0 < Fanout(c)
                    /\ Fanout(c) < Degree(Cur(c))) =>
             /\ pc'[c] = "select"
             /\ Len(Chunk(c)) = Fanout(c)
             /\ IsDistinct(Chunk(c))
             /\ \A i \in 1..Len(Chunk(c)) : InRangeOf(Chunk(c)[i], Cur(c))]_vars

C3_Witness ==
    /\ pc["c1"] = "select"
    /\ replace = FALSE
    /\ Fanout("c1") = 2
    /\ idx["c1"] = 2
    /\ Degree(dst_node["c1"][1]) = 3
    /\ Len(e_id["c1"]) = 2
    /\ e_id["c1"][1] > e_id["c1"][2]

\* C4: with replacement and a positive fanout, while no destination node of
\* degree 0 is met, every processed destination node contributed exactly
\* fanout positions (repeats allowed), all inside its own CSR range, also when
\* its degree is below the fanout; the hop's list has fanout * len(dst_nodes)
\* entries once the hop is sampled.
C4_ReplaceCount ==
    \A c \in Calls :
        (pc[c] = "select" /\ replace = TRUE /\ Fanout(c) > 0) =>
            /\ Len(e_id[c]) = Fanout(c) * (idx[c] - 1)
            /\ \A k \in 1..(idx[c] - 1) : \A j \in 1..Fanout(c) :
                   InRangeOf(e_id[c][(k - 1) * Fanout(c) + j], dst_node[c][k])
            /\ HopSampled(c) => Len(e_id[c]) = Fanout(c) * Len(dst_node[c])

\* two destination nodes, one of degree 1 < fanout 2, one drawn with a repeat
C4_Witness ==
    /\ HopSampled("c1")
    /\ replace = TRUE
    /\ Fanout("c1") = 2
    /\ Len(dst_node["c1"]) = 2
    /\ Degree(dst_node["c1"][2]) = 1
    /\ Degree(dst_node["c1"][1]) = 2
    /\ e_id["c1"][1] = e_id["c1"][2]
    /\ Len(e_id["c1"]) = 4

\* the call took a step
Moved(c) == pc'[c] # pc[c] \/ idx'[c] # idx[c]
\* the step raised an exception in the call
Raised(c) == pc[c] # "error" /\ pc'[c] = "error"
AllPositive == \A h \in 1..Len(sample_list) : sample_list[h] > 0

\* C5 as stated: with replace True and positive fanouts a sample call ends in
\* an error if and only if a destination node it reaches has degree 0, and
\* then returns no record.
C5_ErrorIffZeroDegree ==
    [][\A c \in Calls :
         (replace = TRUE /\ AllPositive) =>
             /\ Raised(c) => (AtNode(c) /\ Degree(Cur(c)) = 0)
             /\ (AtNode(c) /\ Degree(Cur(c)) = 0 /\ Moved(c)) =>
                    (pc'[c] = "error" /\ result'[c] = <<>>)]_vars

\* C5 amended: with replace True and a positive fanout a sample call ends in
\* the ValueError of the draw on an empty range if and only if the destination
\* node it has reached has degree 0; the node is not skipped and no record is
\* returned by a call that raised.
C5_EmptyRangeError ==
    [][\A c \in Calls :
         /\ (err[c] = "none" /\ err'[c] = "ValueError") =>
                (AtNode(c) /\ replace = TRUE /\ Fanout(c) > 0 /\ Degree(Cur(c)) = 0)
         /\ (AtNode(c) /\ replace = TRUE /\ Fanout(c) > 0 /\ Moved(c)) =>
                IF Degree(Cur(c)) = 0
                THEN pc'[c] = "error" /\ err'[c] = "ValueError" /\ idx'[c] = idx[c]
                ELSE pc'[c] = "select" /\ err'[c] = "none"
         /\ pc'[c] = "error" => result'[c] = <<>>
         /\ pc[c] = "error" => pc'[c] = "error"]_vars

\* a node of degree 0 discovered by the first hop ends the second hop
C5_Witness ==
    /\ pc["c1"] = "error"
    /\ err["c1"] = "ValueError"
    /\ replace = TRUE
    /\ hop["c1"] = 2
    /\ idx["c1"] = 2
    /\ Degree(dst_node["c1"][2]) = 0
    /\ result["c1"] = <<>>

\* the sources of the selected edges, in selection order
Sources(eid) == [k \in 1..Len(eid) |-> edge_index[eid[k]][1]]
\* the first occurrences of s, in order
FirstSeen(s) ==
    LET RECURSIVE go(_, _)
        go(acc, k) ==
            IF k > Len(s) THEN acc
            ELSE go(IF s[k] \in Range(acc) THEN acc ELSE Append(acc, s[k]), k + 1)
    IN  go(<<>>, 1)

\* C6: given distinct destination nodes, during and after every hop's sampling
\* the remapper maps exactly {destination nodes} \cup {sources of the selected
\* edges} one-to-one onto 0..n-1, n the number of distinct ids of that set, the
\* indices assigned in order of first discovery.
C6_RemapperBijection ==
    \A c \in Calls :
        (pc[c] = "select" /\ IsDistinct(dst_node[c])) =>
            LET ids == Range(dst_node[c]) \cup Range(Sources(e_id[c]))
            IN  /\ Len(all_node) = Cardinality(ids)
                /\ Range(DictKeys(all_node)) = ids
                /\ IsDistinct(DictKeys(all_node))
                /\ \A i \in 1..Len(all_node) : all_node[i][2] = i - 1
                /\ DictKeys(all_node) = FirstSeen(dst_node[c] \o Sources(e_id[c]))

\* a second hop that met a known source again and discovered a new one
C6_Witness ==
    /\ pc["c1"] = "select"
    /\ hop["c1"] = 2
    /\ IsDistinct(dst_node["c1"])
    /\ Len(all_node) > Len(dst_node["c1"])
    /\ \E k \in 1..Len(e_id["c1"]) : Sources(e_id["c1"])[k] \in Range(dst_node["c1"])

\* C7: in every hop, once the destination nodes are inserted and until the hop
\* ends, the destination node at input position i has local index i, and every
\* other entry of the remapper has a local index >= len(dst_nodes).
C7_DestinationFirst ==
    \A c \in Calls :
        pc[c] = "select" =>
            /\ Len(all_node) >= Len(dst_node[c])
            /\ \A i \in 1..Len(dst_node[c]) : all_node[i] = << dst_node[c][i], i - 1 >>
            /\ \A i \in (Len(dst_node[c]) + 1)..Len(all_node) :
                   all_node[i][2] >= Len(dst_node[c])

\* C8: in a returned record every local id of every subgraph's edge list is
\* >= 0 and < size[0], and size[1] <= size[0].
C8_SubgraphInvariant ==
    \A c \in Calls :
        result[c] # <<>> =>
            \A h \in 1..Len(result[c][2]) :
                LET sg == result[c][2][h]
                IN  /\ sg.size[2] <= sg.size[1]
                    /\ sg.edge # <<>> =>
                           \A r \in 1..2 : \A k \in 1..Len(sg.edge[r]) :
                               0 <= sg.edge[r][k] /\ sg.edge[r][k] < sg.size[1]

\* C9: every hop's subgraph has size = (len of the remapper after the hop's
\* sampling, len of the destination list passed into the hop).
C9_SizeMetadata ==
    [][\A c \in Calls :
         (HopSampled(c) /\ pc'[c] = "loop") =>
             adjs'[c][Len(adjs'[c])].size = << Len(all_node), Len(dst_node[c]) >>]_vars

\* C10 as stated, for duplicate-free batches: index 0 of the returned subgraph
\* list is the hop whose destination set is the seed batch, so its size[1] is
\* the number of seeds.
C10_NearestFirst ==
    \A c \in Calls :
        (result[c] # <<>> /\ Len(sample_list) >= 1 /\ IsDistinct(batch[c])) =>
            result[c][2][1].size[2] = Len(batch[c])

\* C10 amended: index 0 of the returned subgraph list is the last hop sampled,
\* the one farthest from the seeds; the hop whose destination list is the seed
\* batch is the first one sampled and sits at the last index K-1, its size[1]
\* being the number of distinct seeds.
C10_FarthestFirst ==
    \A c \in Calls :
        (result[c] # <<>> /\ Len(sample_list) >= 1) =>
            LET K == Len(sample_list)
            IN  /\ Len(result[c][2]) = K
                /\ result[c][2][1] = adjs[c][K]
                /\ result[c][2][K] = adjs[c][1]
                /\ result[c][2][K].size[2] = Cardinality(Range(batch[c]))

\* two hops returned, the second having grown the node set
C10_Witness ==
    /\ result["c1"] # <<>>
    /\ Len(sample_list) = 2
    /\ Len(batch["c1"]) = 1
    /\ result["c1"][2][1].size = <<3, 2>>
    /\ result["c1"][2][2].size = <<2, 1>>

\* C11: the subgraph of the h-th loop iteration is appended at position h of
\* the sampling order and the earlier ones stay in place; the returned list
\* has one element per hop and its element i (from 0) is the subgraph of
\* iteration K-1-i, so index 0 is the last hop sampled and reversing the
\* returned list gives the sampling order back.
C11_ReverseOfSampling ==
    [][\A c \in Calls :
         /\ (HopSampled(c) /\ pc'[c] = "loop") =>
                /\ Len(adjs'[c]) = hop[c]
                /\ \A h \in 1..(hop[c] - 1) : adjs'[c][h] = adjs[c][h]
         /\ (pc[c] = "loop" /\ pc'[c] = "done") =>
                LET K == Len(sample_list)
                IN  /\ Len(adjs[c]) = K
                    /\ Len(result'[c][2]) = K
                    /\ \A i \in 0..(K - 1) :
                           result'[c][2][i + 1] = adjs[c][(K - 1 - i) + 1]
                    /\ Reverse(result'[c][2]) = adjs[c]]_vars

\* two hops returned whose subgraphs differ: the last sampled one comes first
C11_Witness ==
    /\ pc["c1"] = "done"
    /\ Len(sample_list) = 2
    /\ Len(adjs["c1"]) = 2
    /\ adjs["c1"][1] # adjs["c1"][2]
    /\ result["c1"][2] = << adjs["c1"][2], adjs["c1"][1] >>

\* what a call still has to do: the hops not yet finished, then the stage
\* inside the hop, then the destination nodes the stage has not yet visited
Ended(c) == pc[c] \in {"done", "error"}
Stage(c) ==
    CASE pc[c] = "loop" -> 3
      [] pc[c] = "insert" -> 2
      [] pc[c] = "select" -> 1
      [] OTHER -> 0
Remaining(c) ==
    << IF pc[c] = "idle" THEN Len(sample_list) + 1 ELSE Len(sample_list) + 1 - hop[c],
       Stage(c),
       IF pc[c] \in {"insert", "select"} THEN Len(dst_node[c]) + 1 - idx[c] ELSE 0 >>
LexLess(x, y) ==
    \/ x[1] < y[1]
    \/ x[1] = y[1] /\ x[2] < y[2]
    \/ x[1] = y[1] /\ x[2] = y[2] /\ x[3] < y[3]

\* C12: a sample call terminates: while it has neither returned nor raised it
\* has a next step, and every step of it lowers Remaining, a triple of natural
\* numbers in lexicographic order.  The rounds run one after another: round h
\* is entered with exactly h-1 subgraphs collected and left with h, and the
\* call returns only after round len(sample_list), with exactly
\* len(sample_list) subgraphs.
C12_HopCount ==
    /\ [](\A c \in Calls :
            /\ pc[c] = "idle" \/ Ended(c) \/ ENABLED Step(c)
            /\ \A k \in 1..3 : Remaining(c)[k] >= 0)
    /\ [][\A c \in Calls :
            /\ (pc'[c] # pc[c] \/ idx'[c] # idx[c] \/ hop'[c] # hop[c]) =>
                   LexLess(Remaining(c)', Remaining(c))
            /\ (pc[c] = "loop" /\ pc'[c] = "insert") =>
                   /\ hop[c] <= Len(sample_list)
                   /\ Len(adjs[c]) = hop[c] - 1
            /\ (HopSampled(c) /\ pc'[c] = "loop") =>
                   /\ hop'[c] = hop[c] + 1
                   /\ Len(adjs'[c]) = hop[c]
            /\ (pc'[c] \in {"insert", "select"} /\ pc[c] # "loop") =>
                   /\ hop'[c] = hop[c]
                   /\ adjs'[c] = adjs[c]
            /\ (pc[c] # "done" /\ pc'[c] = "done") =>
                   /\ pc[c] = "loop"
                   /\ hop[c] = Len(sample_list) + 1
                   /\ Len(adjs[c]) = Len(sample_list)
                   /\ Len(result'[c][2]) = Len(sample_list)]_vars

\* a call over two hops returned its two subgraphs
C12_Witness ==
    /\ pc["c1"] = "done"
    /\ err["c1"] = "none"
    /\ Len(sample_list) = 2
    /\ hop["c1"] = 3
    /\ Len(result["c1"][2]) = 2

\* C13: a record returned for a non-empty sample_list has the input batch, in
\* order, as its seed nodes; its all_nodes are the keys of the remapper left
\* by the last sampled hop, in local-index order: all_nodes[k] is the id whose
\* local index in that hop is k, and there are size[0] of them.
C13_RecordFields ==
    \A c \in Calls :
        (pc[c] = "done" /\ Len(sample_list) >= 1) =>
            /\ result[c][1] = batch[c]
            /\ result[c][3] = DictKeys(all_node)
            /\ \A k \in 1..Len(result[c][3]) :
                   << result[c][3][k], k - 1 >> \in Range(all_node)
            /\ Len(result[c][3]) = result[c][2][1].size[1]

\* the 4-node adjacency as the claim lists it, the range of node v holding the
\* pairs (v, neighbour), and with every pair turned round, (neighbour, v)
ScenarioRowptr == rowptr = ZeroBased(<<0, 2, 3, 5, 5>>)
ScenarioAsListed ==
    /\ ScenarioRowptr
    /\ edge_index = ZeroBased(<< <<0, 1>>, <<0, 2>>, <<1, 2>>, <<2, 0>>, <<2, 1>> >>)
ScenarioTurned ==
    /\ ScenarioRowptr
    /\ edge_index = ZeroBased(<< <<1, 0>>, <<2, 0>>, <<2, 1>>, <<0, 2>>, <<1, 2>> >>)
\* what the claim expects of a call with the single seed s: the seed 0 and the
\* two other endpoints 1, 2 in range order, pairs (1,0),(2,0), size (3,1)
ScenarioOutcome(c, first, second) ==
    /\ pc[c] = "done"
    /\ all_node = << <<batch[c][1], 0>>, <<first, 1>>, <<second, 2>> >>
    /\ result[c] = << batch[c],
                      << [edge |-> << <<1, 2>>, <<0, 0>> >>, size |-> <<3, 1>>] >>,
                      << batch[c][1], first, second >> >>

\* C14 as stated: on the adjacency as listed, fanout [-1] and seed [0] give
\* all_nodes [0,1,2], seed [2] gives the mapping 2->0, 0->1, 1->2, each with
\* the subgraph (1,0),(2,0) of size (3,1).
C14_ScenarioAsListed ==
    \A c \in Calls :
        (ScenarioAsListed /\ sample_list = <<-1>> /\ Ended(c)) =>
            /\ batch[c] = <<0>> => ScenarioOutcome(c, 1, 2)
            /\ batch[c] = <<2>> => ScenarioOutcome(c, 0, 1)

\* C14 amended: the outcomes are those of the adjacency whose range of node v
\* holds the pairs (neighbour, v).
C14_ScenarioTurned ==
    \A c \in Calls :
        (ScenarioTurned /\ sample_list = <<-1>> /\ Ended(c)) =>
            /\ batch[c] = <<0>> => ScenarioOutcome(c, 1, 2)
            /\ batch[c] = <<2>> => ScenarioOutcome(c, 0, 1)

\* the call for seed [2] returned over the turned adjacency
C14_Witness ==
    /\ ScenarioTurned
    /\ sample_list = <<-1>>
    /\ batch["c1"] = <<2>>
    /\ pc["c1"] = "done"
    /\ result["c1"][3] = <<2, 0, 1>>

\* C15: the subgraph a hop appends holds one pair per selected edge position,
\* in selection order; its k-th pair is (local index of the source, local
\* index of the destination) of the k-th selected edge, source first, both
\* taken from the remapper as it stands when the hop's sampling has ended; in
\* every hop alike.
C15_SourceFirstPairs ==
    [][\A c \in Calls :
         (HopSampled(c) /\ pc'[c] = "loop") =>
             LET sg == adjs'[c][hop[c]]
                 n == Len(e_id[c])
             IN  IF n = 0 THEN sg.edge = <<>>
                 ELSE /\ Len(sg.edge) = 2
                      /\ Len(sg.edge[1]) = n
                      /\ Len(sg.edge[2]) = n
                      /\ \A k \in 1..n :
                             /\ << edge_index[e_id[c][k]][1], sg.edge[1][k] >>
                                    \in Range(all_node)
                             /\ << edge_index[e_id[c][k]][2], sg.edge[2][k] >>
                                    \in Range(all_node)]_vars

\* the second hop appended pairs whose two local indices differ
C15_Witness ==
    /\ pc["c1"] = "loop"
    /\ hop["c1"] = 3
    /\ Len(e_id["c1"]) >= 2
    /\ adjs["c1"][2].edge # <<>>
    /\ adjs["c1"][2].edge[1] # adjs["c1"][2].edge[2]

\* what a call with every fanout -1 returns when nothing else touches the
\* sampler: the dict of a hop over the destination nodes dst, the positions
\* the hop selects, and the record after all hops (<<>> if small_g raises)
InsertAll(dst) ==
    LET RECURSIVE go(_, _)
        go(d, i) == IF i > Len(dst) THEN d ELSE go(DictSet(d, dst[i], i - 1), i + 1)
    IN  go(<<>>, 1)
AllPositions(dst) ==
    LET RECURSIVE go(_, _)
        go(eid, i) ==
            IF i > Len(dst) THEN eid ELSE go(eid \o SelectAllPositions(dst[i]), i + 1)
    IN  go(<<>>, 1)
AloneRecord(b) ==
    LET RECURSIVE go(_, _, _)
        go(dst, sgs, h) ==
            IF h > Len(sample_list) THEN << b, Reverse(sgs), dst >>
            ELSE LET eid == AllPositions(dst)
                     d == AddSources(InsertAll(dst), eid)
                 IN  IF SmallGResolves(d, eid)
                     THEN go(DictKeys(d),
                             Append(sgs, subg(small_g(d, eid), Len(d), Len(InsertAll(dst)))),
                             h + 1)
                     ELSE <<>>
    IN  go(b, <<>>, 1)
AllFull == \A h \in 1..Len(sample_list) : sample_list[h] = -1

\* C16: of two calls whose steps interleave on one sampler, each ends as it
\* would alone: with every fanout -1 it returns exactly the record of the call
\* run alone, or raises where that one raises.
C16_Isolation ==
    \A c \in Calls :
        (AllFull /\ Ended(c)) =>
            IF AloneRecord(batch[c]) = <<>> THEN pc[c] = "error"
            ELSE pc[c] = "done" /\ result[c] = AloneRecord(batch[c])

\* C17: in a call made after another one on the same sampler, however that one
\* ended, the remapper holds at every step what the call's own destination
\* nodes and own selected positions put there and nothing else, and `a` counts
\* its own destination nodes; the subgraphs and the record are built from these
\* alone, and with every fanout -1 the call ends exactly as the call run alone.
C17_CallIndependence ==
    \A c \in Calls :
        /\ pc[c] = "insert" =>
               all_node = InsertAll(SubSeq(dst_node[c], 1, idx[c] - 1))
        /\ pc[c] = "select" =>
               /\ all_node = AddSources(InsertAll(dst_node[c]), e_id[c])
               /\ a[c] = Len(InsertAll(dst_node[c]))
        /\ pc[c] = "done" =>
               /\ result[c][1] = batch[c]
               /\ result[c][2] = Reverse(adjs[c])
               /\ result[c][3] = dst_node[c]
        /\ (AllFull /\ Ended(c)) =>
               \/ pc[c] = "error" /\ AloneRecord(batch[c]) = <<>>
               \/ pc[c] = "done" /\ AloneRecord(batch[c]) = result[c]

\* the first call raised part-way through a hop, leaving its ids in the dict,
\* and the second call is sampling its own hop
C17_Witness ==
    /\ pc["c1"] = "error"
    /\ e_id["c1"] # <<>>
    /\ pc["c2"] = "select"
    /\ e_id["c2"] # <<>>
    /\ Range(dst_node["c1"]) \cap Range(dst_node["c2"]) = {}

NonDecreasing ==
    \A v \in DOMAIN rowptr : (v + 1) \in DOMAIN rowptr => rowptr[v] <= rowptr[v + 1]

\* C18: a sampler is never constructed over a rowptr that is not
\* non-decreasing, so no sample call ever runs against one.
C18_MalformedRejected ==
    NonDecreasing \/ \A c \in Calls : pc[c] = "idle"

\* an endpoint of a selected edge that the remapper does not hold
Unresolved(c) ==
    \E k \in 1..Len(e_id[c]) :
        \E j \in 1..2 : edge_index[e_id[c][k]][j] \notin Range(DictKeys(all_node))

\* C19: the step that assembles a hop's subgraph never adds to the remapper;
\* if a selected edge has an endpoint the remapper does not hold, the step
\* raises KeyError and appends no subgraph, and the call stays ended without
\* a record; otherwise it goes on to the next hop.
C19_UnresolvedIsError ==
    [][\A c \in Calls :
         /\ (HopSampled(c) /\ pc'[c] # pc[c]) =>
                /\ all_node' = all_node
                /\ IF Unresolved(c)
                   THEN /\ pc'[c] = "error"
                        /\ err'[c] = "KeyError"
                        /\ adjs'[c] = adjs[c]
                        /\ dst_node'[c] = dst_node[c]
                        /\ result'[c] = <<>>
                   ELSE /\ pc'[c] = "loop"
                        /\ err'[c] = "none"
         /\ pc[c] = "error" => (pc'[c] = "error" /\ result'[c] = <<>>)]_vars

\* small_g met an edge whose destination was never given a local index
C19_Witness ==
    /\ pc["c1"] = "error"
    /\ err["c1"] = "KeyError"
    /\ e_id["c1"] # <<>>
    /\ Unresolved("c1")
    /\ result["c1"] = <<>>

\* C20: with an empty sample_list a call enters no hop, raises nothing and
\* draws nothing; once begun it can only return, and the record it returns is
\* the batch as seed nodes, no subgraph, and the batch again, in input order,
\* as all_nodes.
C20_EmptyFanoutList ==
    sample_list = <<>> =>
        \A c \in Calls :
            /\ pc[c] \in {"idle", "loop", "done"}
            /\ err[c] = "none"
            /\ rng_calls = 0
            /\ all_node = <<>>
            /\ pc[c] = "loop" => (ENABLED Return(c) /\ ~ENABLED EnterHop(c))
            /\ pc[c] = "done" => result[c] = << batch[c], <<>>, batch[c] >>

\* a batch of two seeds came back as it went in
C20_Witness ==
    /\ sample_list = <<>>
    /\ pc["c1"] = "done"
    /\ Len(batch["c1"]) = 2
    /\ result["c1"] = << batch["c1"], <<>>, batch["c1"] >>

\* C21: a call with an empty batch raises nothing and draws nothing, whatever
\* the sample_list and the replace flag: every hop it has sampled gave a
\* subgraph without edges and of size (0, 0), its destination lists and dict
\* stay empty, and the record it returns has one such subgraph per hop and no
\* all_nodes.
C21_EmptyBatch ==
    \A c \in Calls :
        (batch[c] = <<>> /\ pc[c] # "idle") =>
            /\ pc[c] # "error"
            /\ err[c] = "none"
            /\ dst_node[c] = <<>>
            /\ e_id[c] = <<>>
            /\ all_node = <<>>
            /\ rng_calls = 0
            /\ \A h \in 1..Len(adjs[c]) :
                   adjs[c][h] = [edge |-> <<>>, size |-> <<0, 0>>]
            /\ pc[c] = "done" =>
                   /\ Len(result[c][2]) = Len(sample_list)
                   /\ result[c] = << <<>>, adjs[c], <<>> >>

\* an empty batch came back from two hops, one with replacement asked for
C21_Witness ==
    /\ batch["c1"] = <<>>
    /\ pc["c1"] = "done"
    /\ replace = TRUE
    /\ Len(sample_list) = 2
    /\ sample_list[1] # -1
    /\ Len(result["c1"][2]) = 2

\* C22: in a hop with fanout -1 the selected positions, the remapper and `a`
\* are given by the destination list and the adjacency alone, whatever the
\* replace flag: the positions are the whole ranges of the destination nodes
\* visited so far, in order; the subgraph and size appended are built from
\* these; and the hop never ends in the draw's ValueError, zero-degree
\* destination nodes included.
C22_FullIgnoresReplace ==
    \A c \in Calls :
        /\ (pc[c] = "select" /\ Fanout(c) = -1) =>
               /\ e_id[c] = AllPositions(SubSeq(dst_node[c], 1, idx[c] - 1))
               /\ all_node = AddSources(InsertAll(dst_node[c]), e_id[c])
               /\ a[c] = Len(InsertAll(dst_node[c]))
        /\ (pc[c] = "loop" /\ hop[c] > 1 /\ sample_list[hop[c] - 1] = -1) =>
               adjs[c][hop[c] - 1] =
                   subg(small_g(all_node, e_id[c]), Len(all_node), a[c])
        /\ (pc[c] = "error" /\ Fanout(c) = -1) => err[c] = "KeyError"

\* with replace True a hop of fanout -1 went over a zero-degree destination
\* node and a node with edges, and took every edge
C22_Witness ==
    /\ replace = TRUE
    /\ HopSampled("c1")
    /\ Fanout("c1") = -1
    /\ \E i \in 1..Len(dst_node["c1"]) : Degree(dst_node["c1"][i]) = 0
    /\ Len(e_id["c1"]) = 2
    /\ err["c1"] = "none"

\* C23: no step of a sample call, of one that returns or of one that raises,
\* changes rowptr or edge_index.
C23_AdjacencyReadOnly ==
    [][rowptr' = rowptr /\ edge_index' = edge_index]_vars

\* one call has returned after selecting edges and a later one has raised
C23_Witness ==
    /\ pc["c1"] = "done"
    /\ e_id["c1"] # <<>>
    /\ pc["c2"] = "error"
    /\ DOMAIN edge_index # {}

\* the items of a dict that gives the k-th id of s (from 0) the local index k
Enumerated(s) == [i \in 1..Len(s) |-> << s[i], i - 1 >>]

\* C24: for distinct seeds, a hop leaves a dict that gives the id at place k
\* of its key list the local index k, that key list is the next hop's
\* destination list, and the next hop gives every one of these ids the same
\* index again and keeps it while it adds further ids behind them: over the
\* hops of one call no id loses or changes its local index.
C24_StableIndices ==
    \A c \in Calls :
        IsDistinct(batch[c]) =>
            /\ (pc[c] = "loop" /\ hop[c] > 1) => all_node = Enumerated(dst_node[c])
            /\ pc[c] = "insert" =>
                   all_node = Enumerated(SubSeq(dst_node[c], 1, idx[c] - 1))
            /\ pc[c] = "select" =>
                   /\ Len(all_node) >= Len(dst_node[c])
                   /\ SubSeq(all_node, 1, Len(dst_node[c])) = Enumerated(dst_node[c])
                   /\ \A i \in 1..Len(all_node) : all_node[i][2] = i - 1

\* the second hop has sampled: the ids of the first hop, seeds and sources,
\* kept their indices and new ids came behind them
C24_Witness ==
    /\ HopSampled("c1")
    /\ hop["c1"] = 2
    /\ IsDistinct(batch["c1"])
    /\ Len(dst_node["c1"]) > Len(batch["c1"])
    /\ Len(all_node) > Len(dst_node["c1"])

\* C25: whatever the seed batch, repeated ids included, once a hop has sampled
\* no two ids of the remapper share a local index and the indices in use are
\* exactly 0..n-1 for its n ids.
C25_DuplicateSeedsSafe ==
    \A c \in Calls :
        HopSampled(c) =>
            /\ \A i, j \in 1..Len(all_node) :
                   i # j => all_node[i][2] # all_node[j][2]
            /\ {all_node[i][2] : i \in 1..Len(all_node)} = 0..(Len(all_node) - 1)

IsPrefix(s, t) == Len(s) <= Len(t) /\ SubSeq(t, 1, Len(s)) = s

\* C26: for distinct seeds, the destination list a hop hands to the next hop
\* is the key list of its remapper, in assignment order; the key list of the
\* hop being sampled starts with that destination list, so every hop's key
\* list is a prefix of the next hop's; and the seed batch is a prefix of every
\* destination list and of all_nodes.
C26_PrefixExtension ==
    \A c \in Calls :
        (IsDistinct(batch[c]) /\ pc[c] # "idle") =>
            /\ IsPrefix(batch[c], dst_node[c])
            /\ (pc[c] = "loop" /\ hop[c] > 1) => dst_node[c] = DictKeys(all_node)
            /\ pc[c] = "select" => IsPrefix(dst_node[c], DictKeys(all_node))
            /\ pc[c] = "done" => IsPrefix(batch[c], result[c][3])

\* after two hops the record's all_nodes start with the two seeds and go on
C26_Witness ==
    /\ pc["c1"] = "done"
    /\ Len(sample_list) = 2
    /\ Len(batch["c1"]) = 2
    /\ IsDistinct(batch["c1"])
    /\ Len(result["c1"][3]) > 2
    /\ SubSeq(result["c1"][3], 1, 2) = batch["c1"]

\* C27: for distinct seeds, in sampling order the first hop's size[1] is the
\* number of seeds, every later hop's size[1] is the previous hop's size[0],
\* size[0] never decreases from a hop to the next, and the last hop's size[0]
\* is len(all_nodes); in the returned list, subgraphs[i].size[1] equals
\* subgraphs[i+1].size[0].  (size[0], size[1] of the code are size[1], size[2]
\* here.)
C27_SizesChain ==
    \A c \in Calls :
        (IsDistinct(batch[c]) /\ pc[c] # "idle") =>
            /\ Len(adjs[c]) >= 1 => adjs[c][1].size[2] = Len(batch[c])
            /\ \A h \in 2..Len(adjs[c]) :
                   /\ adjs[c][h].size[2] = adjs[c][h - 1].size[1]
                   /\ adjs[c][h].size[1] >= adjs[c][h - 1].size[1]
            /\ (pc[c] = "done" /\ Len(sample_list) >= 1) =>
                   /\ adjs[c][Len(sample_list)].size[1] = Len(result[c][3])
                   /\ result[c][2][1].size[1] = Len(result[c][3])
                   /\ \A i \in 1..(Len(result[c][2]) - 1) :
                          result[c][2][i].size[2] = result[c][2][i + 1].size[1]

\* two hops returned, each larger than the one before: 1 seed, 2 nodes, 3 nodes
C27_Witness ==
    /\ pc["c1"] = "done"
    /\ Len(batch["c1"]) = 1
    /\ Len(result["c1"][2]) = 2
    /\ result["c1"][2][2].size = <<2, 1>>
    /\ result["c1"][2][1].size = <<3, 2>>
    /\ Len(result["c1"][3]) = 3

\* an adjacency whose range of node v holds only edges with v as second endpoint
InEdgeRanges ==
    \A v \in DOMAIN rowptr : (v + 1) \in DOMAIN rowptr =>
        \A p \in DOMAIN edge_index : InRangeOf(p, v) => edge_index[p][2] = v

\* C28: on an adjacency with InEdgeRanges, every pair of every subgraph a call
\* has appended has its second local index below the subgraph's size[1], the
\* number of destination nodes of the hop.
C28_DestinationSlice ==
    InEdgeRanges =>
        \A c \in Calls : \A h \in 1..Len(adjs[c]) :
            adjs[c][h].edge # <<>> =>
                \A k \in 1..Len(adjs[c][h].edge[2]) :
                    adjs[c][h].edge[2][k] < adjs[c][h].size[2]

\* C29: on an adjacency with InEdgeRanges, whatever the batch, the sample_list
\* and the replace flag, the remapper holds both endpoints of every edge
\* selected so far at every moment of a hop's sampling, in particular when
\* small_g runs, and no call ends in small_g's KeyError.
C29_LookupNeverFails ==
    InEdgeRanges =>
        \A c \in Calls :
            /\ err[c] # "KeyError"
            /\ pc[c] = "select" => ~Unresolved(c)
            /\ pc[c] = "select" => SmallGResolves(all_node, e_id[c])

\* a batch with a repeated seed, drawing with replacement, has sampled its
\* second hop and every endpoint is in the remapper
C29_Witness ==
    /\ InEdgeRanges
    /\ replace = TRUE
    /\ ~IsDistinct(batch["c1"])
    /\ HopSampled("c1")
    /\ hop["c1"] = 2
    /\ Fanout("c1") > 0
    /\ e_id["c1"] # <<>>
    /\ ~Unresolved("c1")
====
